---- MODULE Spec2Model ----
(***************************************************************************)
(* Model of the AVX2 32-bit zone of libebm:                                *)
(*   src/shared/libebm/bridge_c/bridge_c.h        (ObjectiveWrapper)       *)
(*   src/shared/libebm/compute/avx2_ebm/avx2_32.cpp (Avx2_32_Int/_Float,   *)
(*                                                 CreateObjective_Avx2_32)*)
(*                                                                         *)
(* Three specifications share the variables:                               *)
(*   Spec       the life of one ObjectiveWrapper (initialize, create,      *)
(*              free) over an abstract heap                                *)
(*   SpecLanes  one operation of the lane types on a word-addressed memory *)
(*   SpecBinSum gather / add / scatter accumulation of lane groups         *)
(***************************************************************************)
EXTENDS Integers, Sequences, FiniteSets

VARIABLES
    \* ---- binding life cycle ----
    wrapper,      \* the ObjectiveWrapper struct
    allocated,    \* heap blocks malloc has handed out so far (block ids)
    freeCount,    \* block id -> number of times free() was called on it
    phase,        \* "raw" | "init" | "created" | "freed" | "crashed"
    ret,          \* ErrorEbm returned by the last CreateObjective_Avx2_32
    fillOutcome,  \* what FillWrapper returned in the last create
    objOutcome,   \* what Objective::CreateObjective returns when invoked
    objInvoked,   \* whether the last create invoked Objective::CreateObjective
    callAllocs,   \* blocks allocated by the last create
    cycle,        \* number of create calls so far
    trace,        \* operations applied since the last initialize
    \* ---- lane types ----
    pc,           \* name of the lane operation that ran ("idle" before)
    mem,          \* memory, word index -> value (one word = sizeof(T) bytes)
    memBefore,    \* memory before the operation
    base,         \* word index of the pointer a handed to the operation
    debug,        \* TRUE: EBM_ASSERT is compiled in (NDEBUG not defined)
    outcome,      \* "none" | "completed" | "assert_failed" | "fault"
    idx,          \* Avx2_32_Int operand (lane -> uint32)
    val0,         \* first Avx2_32_Float operand
    val1,         \* second Avx2_32_Float operand
    result,       \* lane group returned by the operation
    calls,        \* the callback invocations Execute made, in order
    sumOut,       \* scalar returned by Sum
    cmpOp1,       \* first operand compared by IfLess / IfEqual
    cmpOp2,       \* second operand compared by IfLess / IfEqual
    samples       \* samples handed to the bin-summation pass so far

lifeVars == <<wrapper, allocated, freeCount, phase, ret, fillOutcome,
              objOutcome, objInvoked, callAllocs, cycle, trace>>
laneVars == <<pc, mem, memBefore, base, debug, outcome, idx, val0, val1,
              result, calls, sumOut, cmpOp1, cmpOp2, samples>>
vars == <<lifeVars, laneVars>>

-----------------------------------------------------------------------------
(* Bounds *)

MaxCycles == 2

\* accumulator / array elements reachable through an index lane
NumBins == 9

\* the pointer a handed to a memory operation is word 0..MaxBaseWord
MaxBaseWord == 9

\* lane values are ValBase + ValMult * lane (+ 1 in one lane)
MaxValBase == 1

MaxValMult == 2

\* lane groups one bin-summation pass accumulates
MaxGroups == 2

\* bin indices of one accumulated group step by 0..MaxBinStride per lane
MaxBinStride == 2

-----------------------------------------------------------------------------
(* Lane-group geometry *)

k_cSIMDShift == 3

k_cSIMDPack == 2 ^ k_cSIMDShift

Lanes == 0..(k_cSIMDPack - 1)

\* sizeof(Avx2_32_Float::T), sizeof(Avx2_32_Int::T) and sizeof(TPack), in bytes
SizeofFloat == 4

SizeofUInt == 4

SizeofTPack == 32

-----------------------------------------------------------------------------
(* Pointers and the heap *)

NULL == 0

\* every create allocates at most two blocks
BlockIds == 1..(2 * MaxCycles)

\* an indeterminate pointer value, as an uninitialized struct holds
Garbage == 2 * MaxCycles + 1

NullFn == "NULL"

EntryPoints == {"m_pApplyUpdateC", "m_pFinishMetricC", "m_pCheckTargetsC",
                "m_pBinSumsBoostingC", "m_pBinSumsInteractionC"}

\* malloc: a block never handed out before
NewBlock(alloc) == Cardinality(alloc) + 1

\* free(p): free(NULL) does nothing
FreeBlock(fc, p) == IF p = NULL THEN fc ELSE [fc EXCEPT ![p] = @ + 1]

Live(p) == p \in allocated /\ freeCount[p] = 0

Released(p) == p \in allocated /\ freeCount[p] >= 1

-----------------------------------------------------------------------------
(* ObjectiveWrapper *)

\* slip: the last assignment left out, the field keeps what the struct held
InitializeObjectiveWrapperUnfailing_KeepsPointer(w) ==
    [m_pApplyUpdateC |-> NullFn,
     m_pFinishMetricC |-> NullFn,
     m_pCheckTargetsC |-> NullFn,
     m_pBinSumsBoostingC |-> NullFn,
     m_pBinSumsInteractionC |-> NullFn,
     m_pObjective |-> NULL,
     m_bMaximizeMetric |-> FALSE,
     m_linkFunction |-> "Link_ERROR",
     m_linkParam |-> 0,
     m_learningRateAdjustmentDifferentialPrivacy |-> 0,
     m_learningRateAdjustmentGradientBoosting |-> 0,
     m_learningRateAdjustmentHessianBoosting |-> 0,
     m_gainAdjustmentGradientBoosting |-> 0,
     m_gainAdjustmentHessianBoosting |-> 0,
     m_gradientConstant |-> 0,
     m_hessianConstant |-> 0,
     m_bObjectiveHasHessian |-> FALSE,
     m_bRmse |-> FALSE,
     m_cSIMDPack |-> 0,
     m_cFloatBytes |-> 0,
     m_cUIntBytes |-> 0,
     m_pFunctionPointersCpp |->
         IF "m_pFunctionPointersCpp" \in DOMAIN w
         THEN w.m_pFunctionPointersCpp ELSE NULL]

\* every field assigned, whatever the struct held
InitializeObjectiveWrapperUnfailing(w) ==
    [m_pApplyUpdateC |-> NullFn,
     m_pFinishMetricC |-> NullFn,
     m_pCheckTargetsC |-> NullFn,
     m_pBinSumsBoostingC |-> NullFn,
     m_pBinSumsInteractionC |-> NullFn,
     m_pObjective |-> NULL,
     m_bMaximizeMetric |-> FALSE,
     m_linkFunction |-> "Link_ERROR",
     m_linkParam |-> 0,
     m_learningRateAdjustmentDifferentialPrivacy |-> 0,
     m_learningRateAdjustmentGradientBoosting |-> 0,
     m_learningRateAdjustmentHessianBoosting |-> 0,
     m_gainAdjustmentGradientBoosting |-> 0,
     m_gainAdjustmentHessianBoosting |-> 0,
     m_gradientConstant |-> 0,
     m_hessianConstant |-> 0,
     m_bObjectiveHasHessian |-> FALSE,
     m_bRmse |-> FALSE,
     m_cSIMDPack |-> 0,
     m_cFloatBytes |-> 0,
     m_cUIntBytes |-> 0,
     m_pFunctionPointersCpp |-> NULL]

\* a struct nobody has written yet: every field indeterminate
RawWrappers ==
    { [InitializeObjectiveWrapperUnfailing(<<>>) EXCEPT
          !.m_pApplyUpdateC = fn, !.m_pFinishMetricC = fn,
          !.m_pCheckTargetsC = fn, !.m_pBinSumsBoostingC = fn,
          !.m_pBinSumsInteractionC = fn,
          !.m_pObjective = p, !.m_pFunctionPointersCpp = q,
          !.m_linkFunction = l, !.m_cSIMDPack = n,
          !.m_cFloatBytes = n, !.m_cUIntBytes = n] :
      fn \in {NullFn, "garbage"}, p \in {NULL, Garbage}, q \in {NULL, Garbage},
      l \in {"Link_ERROR", "Link_logit"}, n \in {0, 7} }

\* slip: the second free left out
FreeObjectiveWrapperInternals_ObjectiveOnly(w, fc) ==
    FreeBlock(fc, w.m_pObjective)

\* slip: the first pointer freed twice, the second never
FreeObjectiveWrapperInternals_SameTwice(w, fc) ==
    FreeBlock(FreeBlock(fc, w.m_pObjective), w.m_pObjective)

\* the two frees of FreeObjectiveWrapperInternals, in order
FreeObjectiveWrapperInternals(w, fc) ==
    FreeBlock(FreeBlock(fc, w.m_pObjective), w.m_pFunctionPointersCpp)

-----------------------------------------------------------------------------
(* Binding creation *)

\* ComputeWrapper<Avx2_32_Float>::FillWrapper: allocates the zone's function
\* pointer block and sets the five C entry points; allocates nothing and
\* leaves the wrapper alone when malloc fails.
FillWrapper(st, mallocOk) ==
    IF ~mallocOk
    THEN [wrapper |-> st.wrapper, allocated |-> st.allocated,
          error |-> "Error_OutOfMemory"]
    ELSE LET p == NewBlock(st.allocated) IN
         [wrapper |-> [st.wrapper EXCEPT
                          !.m_pApplyUpdateC = "ApplyUpdateC",
                          !.m_pFinishMetricC = "FinishMetricC",
                          !.m_pCheckTargetsC = "CheckTargetsC",
                          !.m_pBinSumsBoostingC = "BinSumsBoostingC",
                          !.m_pBinSumsInteractionC = "BinSumsInteractionC",
                          !.m_cSIMDPack = k_cSIMDPack,
                          !.m_cFloatBytes = SizeofFloat,
                          !.m_cUIntBytes = SizeofUInt,
                          !.m_pFunctionPointersCpp = p],
          allocated |-> st.allocated \cup {p},
          error |-> "Error_None"]

\* the objectives the registrations know, with the scalars they publish
RegisteredObjectives ==
    [rmse |-> [link |-> "Link_identity", hessian |-> TRUE, rmse |-> TRUE],
     log_loss |-> [link |-> "Link_logit", hessian |-> TRUE, rmse |-> FALSE]]

ObjectiveNames == {"rmse", "log_loss", "no_such_objective"}

\* Objective::CreateObjective: looks the name up, allocates the objective and
\* copies its scalars into the wrapper; allocates nothing and leaves the
\* wrapper alone when the name is unknown or malloc fails.
CreateObjective(st, sObjective, mallocOk) ==
    IF sObjective \notin DOMAIN RegisteredObjectives
    THEN [wrapper |-> st.wrapper, allocated |-> st.allocated,
          error |-> "Error_ObjectiveUnknown"]
    ELSE IF ~mallocOk
    THEN [wrapper |-> st.wrapper, allocated |-> st.allocated,
          error |-> "Error_OutOfMemory"]
    ELSE LET p == NewBlock(st.allocated)
             o == RegisteredObjectives[sObjective] IN
         [wrapper |-> [st.wrapper EXCEPT
                          !.m_pObjective = p,
                          !.m_bMaximizeMetric = FALSE,
                          !.m_linkFunction = o.link,
                          !.m_learningRateAdjustmentDifferentialPrivacy = 1,
                          !.m_learningRateAdjustmentGradientBoosting = 1,
                          !.m_learningRateAdjustmentHessianBoosting = 1,
                          !.m_gainAdjustmentGradientBoosting = 1,
                          !.m_gainAdjustmentHessianBoosting = 1,
                          !.m_gradientConstant = 1,
                          !.m_hessianConstant = 1,
                          !.m_bObjectiveHasHessian = o.hessian,
                          !.m_bRmse = o.rmse],
          allocated |-> st.allocated \cup {p},
          error |-> "Error_None"]

\* slip: the second stage's error is dropped
CreateObjective_Avx2_32_DropsError(st, fillMallocOk, sObjective, objMallocOk) ==
    LET s1 == FillWrapper(st, fillMallocOk) IN
    IF "Error_None" # s1.error
    THEN [wrapper |-> s1.wrapper, allocated |-> s1.allocated,
          error |-> s1.error, invoked |-> FALSE]
    ELSE LET s2 == CreateObjective(s1, sObjective, objMallocOk) IN
         [wrapper |-> s2.wrapper, allocated |-> s2.allocated,
          error |-> "Error_None", invoked |-> TRUE]

\* CreateObjective_Avx2_32: the two stages, each error returned as it comes
CreateObjective_Avx2_32(st, fillMallocOk, sObjective, objMallocOk) ==
    LET s1 == FillWrapper(st, fillMallocOk) IN
    IF "Error_None" # s1.error
    THEN [wrapper |-> s1.wrapper, allocated |-> s1.allocated,
          error |-> s1.error, invoked |-> FALSE]
    ELSE LET s2 == CreateObjective(s1, sObjective, objMallocOk) IN
         IF "Error_None" # s2.error
         THEN [wrapper |-> s2.wrapper, allocated |-> s2.allocated,
               error |-> s2.error, invoked |-> TRUE]
         ELSE [wrapper |-> s2.wrapper, allocated |-> s2.allocated,
               error |-> "Error_None", invoked |-> TRUE]

-----------------------------------------------------------------------------
(* The caller of the binding: initialize, create, free *)

LifeInit ==
    /\ wrapper \in RawWrappers
    /\ allocated = {}
    /\ freeCount = [b \in BlockIds |-> 0]
    /\ phase = "raw"
    /\ ret = "none"
    /\ fillOutcome = "none"
    /\ objOutcome = "none"
    /\ objInvoked = FALSE
    /\ callAllocs = {}
    /\ cycle = 0
    /\ trace = <<>>

Initialize ==
    /\ phase \in {"raw", "init", "freed"}
    /\ wrapper' = InitializeObjectiveWrapperUnfailing(wrapper)
    /\ phase' = "init"
    /\ trace' = <<>>
    /\ UNCHANGED <<allocated, freeCount, ret, fillOutcome, objOutcome,
                   objInvoked, callAllocs, cycle>>
    /\ UNCHANGED laneVars

Create ==
    /\ phase \in {"init", "freed"}
    /\ cycle < MaxCycles
    /\ \E fillMallocOk \in BOOLEAN, sObjective \in ObjectiveNames,
          objMallocOk \in BOOLEAN :
          LET st == [wrapper |-> wrapper, allocated |-> allocated]
              r == CreateObjective_Avx2_32(st, fillMallocOk, sObjective,
                                           objMallocOk)
          IN /\ wrapper' = r.wrapper
             /\ allocated' = r.allocated
             /\ ret' = r.error
             /\ objInvoked' = r.invoked
             /\ fillOutcome' = FillWrapper(st, fillMallocOk).error
             /\ objOutcome' = CreateObjective(st, sObjective, objMallocOk).error
             /\ callAllocs' = r.allocated \ allocated
    /\ phase' = "created"
    /\ cycle' = cycle + 1
    /\ trace' = Append(trace, "create")
    /\ UNCHANGED freeCount
    /\ UNCHANGED laneVars

\* free() of a block already freed is undefined: the process goes on or dies
Free ==
    /\ phase \in {"init", "created"}
    /\ freeCount' = FreeObjectiveWrapperInternals(wrapper, freeCount)
    /\ IF \E b \in BlockIds : freeCount'[b] >= 2
       THEN phase' \in {"freed", "crashed"}
       ELSE phase' = "freed"
    /\ trace' = Append(trace, "free")
    /\ UNCHANGED <<wrapper, allocated, ret, fillOutcome, objOutcome,
                   objInvoked, callAllocs, cycle>>
    /\ UNCHANGED laneVars

-----------------------------------------------------------------------------
(* Memory seen by the lane types: words of sizeof(T) bytes *)

Words == 0..(MaxBaseWord + NumBins - 1)

AddrOf(w) == SizeofFloat * w

IsAligned(addr, cBytes) == addr % cBytes = 0

\* EBM_ASSERT(cond): aborts a debug build whose condition is false, and is
\* compiled out of a release build
EBM_ASSERT(cond, dbg) == IF dbg /\ ~cond THEN "assert_failed" ELSE "pass"

\* copy of a lane group into an alignas(SIMD_BYTE_ALIGNMENT) local array
TempStore(val) == [k \in Lanes |-> val[k]]

\* _mm256_load_si256 / _mm256_load_ps: 8 consecutive words; an address that
\* is not 32-byte aligned is undefined (a fault, or the access completes)
AlignedLoad(m, a) ==
    LET done == [outcome |-> "completed", mem |-> m,
                 result |-> [k \in Lanes |-> m[a + k]]]
    IN IF IsAligned(AddrOf(a), SizeofTPack) THEN {done}
       ELSE {done, [outcome |-> "fault", mem |-> m, result |-> <<>>]}

\* _mm256_store_si256 / _mm256_store_ps
AlignedStore(m, a, data) ==
    LET done == [outcome |-> "completed",
                 mem |-> [w \in Words |->
                            IF w \in a..(a + k_cSIMDPack - 1)
                            THEN data[w - a] ELSE m[w]],
                 result |-> <<>>]
    IN IF IsAligned(AddrOf(a), SizeofTPack) THEN {done}
       ELSE {done, [outcome |-> "fault", mem |-> m, result |-> <<>>]}

AssertFailed(m) == {[outcome |-> "assert_failed", mem |-> m, result |-> <<>>]}

\* Avx2_32_Int::Load(const T * a)
Avx2_32_Int_Load(m, a, dbg) ==
    IF EBM_ASSERT(IsAligned(AddrOf(a), SizeofTPack), dbg) = "assert_failed"
    THEN AssertFailed(m)
    ELSE AlignedLoad(m, a)

\* Avx2_32_Int::Store(T * a)
Avx2_32_Int_Store(m, a, data, dbg) ==
    IF EBM_ASSERT(IsAligned(AddrOf(a), SizeofTPack), dbg) = "assert_failed"
    THEN AssertFailed(m)
    ELSE AlignedStore(m, a, data)

\* Avx2_32_Float::Load(const T * a)
Avx2_32_Float_Load(m, a, dbg) ==
    IF EBM_ASSERT(IsAligned(AddrOf(a), SizeofTPack), dbg) = "assert_failed"
    THEN AssertFailed(m)
    ELSE AlignedLoad(m, a)

\* Avx2_32_Float::Store(T * a)
Avx2_32_Float_Store(m, a, data, dbg) ==
    IF EBM_ASSERT(IsAligned(AddrOf(a), SizeofTPack), dbg) = "assert_failed"
    THEN AssertFailed(m)
    ELSE AlignedStore(m, a, data)

\* slip: every lane reads through the index of lane 0
Gather_Lane0(m, a, i) == [k \in Lanes |-> m[a + i[0]]]

\* _mm256_i32gather_ps(a, i, sizeof(a[0])): lane k reads a[i[k]]; the
\* intrinsic takes the lanes as signed 32-bit, the indices used here stay
\* below NumBins
Gather(m, a, i) == [k \in Lanes |-> m[a + i[k]]]

\* slip: the assertion left out of the gather load
Avx2_32_Float_LoadGather_NoAssert(m, a, i, dbg) ==
    {[outcome |-> "completed", mem |-> m, result |-> Gather(m, a, i)]}

\* Avx2_32_Float::Load(const T * a, const TInt i)
Avx2_32_Float_LoadGather(m, a, i, dbg) ==
    IF EBM_ASSERT(IsAligned(AddrOf(a), SizeofTPack), dbg) = "assert_failed"
    THEN AssertFailed(m)
    ELSE {[outcome |-> "completed", mem |-> m, result |-> Gather(m, a, i)]}

\* slip: the eight assignments in descending lane order
Scatter_Descending(m, a, ints, floats) ==
    LET m7 == [m EXCEPT ![a + ints[7]] = floats[7]]
        m6 == [m7 EXCEPT ![a + ints[6]] = floats[6]]
        m5 == [m6 EXCEPT ![a + ints[5]] = floats[5]]
        m4 == [m5 EXCEPT ![a + ints[4]] = floats[4]]
        m3 == [m4 EXCEPT ![a + ints[3]] = floats[3]]
        m2 == [m3 EXCEPT ![a + ints[2]] = floats[2]]
        m1 == [m2 EXCEPT ![a + ints[1]] = floats[1]]
    IN [m1 EXCEPT ![a + ints[0]] = floats[0]]

\* a[ints[0]] = floats[0]; ... ; a[ints[7]] = floats[7];
Scatter(m, a, ints, floats) ==
    LET m0 == [m EXCEPT ![a + ints[0]] = floats[0]]
        m1 == [m0 EXCEPT ![a + ints[1]] = floats[1]]
        m2 == [m1 EXCEPT ![a + ints[2]] = floats[2]]
        m3 == [m2 EXCEPT ![a + ints[3]] = floats[3]]
        m4 == [m3 EXCEPT ![a + ints[4]] = floats[4]]
        m5 == [m4 EXCEPT ![a + ints[5]] = floats[5]]
        m6 == [m5 EXCEPT ![a + ints[6]] = floats[6]]
    IN [m6 EXCEPT ![a + ints[7]] = floats[7]]

\* Avx2_32_Float::Store(T * a, const TInt i)
Avx2_32_Float_StoreScatter(m, a, i, data, dbg) ==
    IF EBM_ASSERT(IsAligned(AddrOf(a), SizeofTPack), dbg) = "assert_failed"
    THEN AssertFailed(m)
    ELSE LET ints == TempStore(i)
             floats == TempStore(data)
         IN {[outcome |-> "completed", mem |-> Scatter(m, a, ints, floats),
              result |-> <<>>]}

-----------------------------------------------------------------------------
(* Execute and Sum *)

\* Avx2_32_Int::Execute(func, val0)
Avx2_32_Int_Execute(v0) ==
    LET a0 == TempStore(v0) IN
    << <<0, a0[0]>>, <<1, a0[1]>>, <<2, a0[2]>>, <<3, a0[3]>>,
       <<4, a0[4]>>, <<5, a0[5]>>, <<6, a0[6]>>, <<7, a0[7]>> >>

\* Avx2_32_Float::Execute(func)
Avx2_32_Float_Execute0 ==
    << <<0>>, <<1>>, <<2>>, <<3>>, <<4>>, <<5>>, <<6>>, <<7>> >>

\* Avx2_32_Float::Execute(func, val0)
Avx2_32_Float_Execute1(v0) ==
    LET a0 == TempStore(v0) IN
    << <<0, a0[0]>>, <<1, a0[1]>>, <<2, a0[2]>>, <<3, a0[3]>>,
       <<4, a0[4]>>, <<5, a0[5]>>, <<6, a0[6]>>, <<7, a0[7]>> >>

\* slip: lane 5 takes its second operand from lane 4
Avx2_32_Float_Execute2_WrongLane(v0, v1) ==
    LET a0 == TempStore(v0)
        a1 == TempStore(v1) IN
    << <<0, a0[0], a1[0]>>, <<1, a0[1], a1[1]>>, <<2, a0[2], a1[2]>>,
       <<3, a0[3], a1[3]>>, <<4, a0[4], a1[4]>>, <<5, a0[5], a1[4]>>,
       <<6, a0[6], a1[6]>>, <<7, a0[7], a1[7]>> >>

\* Avx2_32_Float::Execute(func, val0, val1)
Avx2_32_Float_Execute2(v0, v1) ==
    LET a0 == TempStore(v0)
        a1 == TempStore(v1) IN
    << <<0, a0[0], a1[0]>>, <<1, a0[1], a1[1]>>, <<2, a0[2], a1[2]>>,
       <<3, a0[3], a1[3]>>, <<4, a0[4], a1[4]>>, <<5, a0[5], a1[5]>>,
       <<6, a0[6], a1[6]>>, <<7, a0[7], a1[7]>> >>

\* _mm_hadd_ps(x, y) on four lanes
Hadd(x, y) == <<x[1] + x[2], x[3] + x[4], y[1] + y[2], y[3] + y[4]>>

\* slip: the second horizontal add left out
Sum_OneHadd(val) ==
    LET vlow == <<val[0], val[1], val[2], val[3]>>
        vhigh == <<val[4], val[5], val[6], val[7]>>
        sum == [j \in 1..4 |-> vlow[j] + vhigh[j]]
        sum1 == Hadd(sum, sum)
    IN sum1[1]

\* Sum(const Avx2_32_Float & val)
Sum(val) ==
    LET vlow == <<val[0], val[1], val[2], val[3]>>
        vhigh == <<val[4], val[5], val[6], val[7]>>
        sum == [j \in 1..4 |-> vlow[j] + vhigh[j]]
        sum1 == Hadd(sum, sum)
        sum2 == Hadd(sum1, sum1)
    IN sum2[1]

-----------------------------------------------------------------------------
(* Comparison-select *)

\* a float lane that holds no number (floats are modelled by integers >= 0)
NaN == -1

\* a mask lane is written as the two's complement reading of its 32 bits:
\* 32 one bits are -1, and the top bit is set exactly when the lane is < 0
AllOnes == -1

\* _mm256_cmp_ps(x, y, _CMP_LT_OQ): a lane of 32 one bits where x < y, of
\* zero bits elsewhere; ordered, so a lane with a NaN operand is zero
Cmp_ps_LT_OQ(x, y) ==
    [k \in Lanes |-> IF x[k] # NaN /\ y[k] # NaN /\ x[k] < y[k]
                     THEN AllOnes ELSE 0]

\* _mm256_cmpeq_epi32(x, y): 32 one bits where the lanes are equal
Cmpeq_epi32(x, y) ==
    [k \in Lanes |-> IF x[k] = y[k] THEN AllOnes ELSE 0]

\* _mm256_blendv_ps(a, b, mask): lane k of b where the top bit of lane k of
\* mask is set, lane k of a elsewhere
Blendv_ps(a, b, mask) ==
    [k \in Lanes |-> IF mask[k] < 0 THEN b[k] ELSE a[k]]

\* slip: the blend operands in the order of the parameters
IfLess_BlendOrder(cmp1, cmp2, trueVal, falseVal) ==
    LET mask == Cmp_ps_LT_OQ(cmp1, cmp2) IN
    Blendv_ps(trueVal, falseVal, mask)

\* IfLess(cmp1, cmp2, trueVal, falseVal) on float lanes
IfLess(cmp1, cmp2, trueVal, falseVal) ==
    LET mask == Cmp_ps_LT_OQ(cmp1, cmp2) IN
    Blendv_ps(falseVal, trueVal, mask)

\* IfEqual(cmp1, cmp2, trueVal, falseVal), cmp1 and cmp2 integer lanes
IfEqual(cmp1, cmp2, trueVal, falseVal) ==
    LET mask == Cmpeq_epi32(cmp1, cmp2) IN
    Blendv_ps(falseVal, trueVal, mask)

-----------------------------------------------------------------------------
(* Operands the lane operations are run on *)

\* index lanes: start, start + stride, ... modulo the number of elements;
\* a stride of 0 puts all lanes on one element, a stride that divides
\* NumBins puts several, a stride coprime to it none
IdxVec(start, stride) == [k \in Lanes |-> (start + k * stride) % NumBins]

IdxFamily == {IdxVec(s, d) : s \in 0..(NumBins - 1), d \in 0..(NumBins - 1)}

\* integer-valued float lanes; spike = k_cSIMDPack means no lane is raised
LaneVec(b, m, spike) ==
    [k \in Lanes |-> b + m * k + (IF k = spike THEN 1 ELSE 0)]

ValFamily == {LaneVec(b, m, sp) : b \in 0..MaxValBase, m \in 0..MaxValMult,
                                  sp \in 0..k_cSIMDPack}

PlainVals == {LaneVec(b, m, k_cSIMDPack) : b \in 0..MaxValBase,
                                            m \in 0..MaxValMult}

ZeroLanes == [k \in Lanes |-> 0]

\* compared float lanes: b + m * lane, lane nan (if any) holding a NaN
CmpVec(b, m, nan) == [k \in Lanes |-> IF k = nan THEN NaN ELSE b + m * k]

CmpFamily == {CmpVec(b, m, n) : b \in 0..MaxValBase, m \in 0..MaxValMult,
                                n \in 0..k_cSIMDPack}

\* compared integer lanes: all lanes equal, or consecutive elements
IntCmpFamily == {IdxVec(s, d) : s \in 0..(NumBins - 1), d \in 0..1}

\* values offered for the lanes whose comparison is false
FalseVals == {ZeroLanes, [k \in Lanes |-> 100 + k]}

MemInit == [w \in Words |-> 100 + w]

LaneInit(m) ==
    /\ pc = "idle"
    /\ mem = m
    /\ memBefore = m
    /\ base = 0
    /\ debug = TRUE
    /\ outcome = "none"
    /\ idx = ZeroLanes
    /\ val0 = ZeroLanes
    /\ val1 = ZeroLanes
    /\ result = <<>>
    /\ calls = <<>>
    /\ sumOut = 0
    /\ cmpOp1 = ZeroLanes
    /\ cmpOp2 = ZeroLanes
    /\ samples = 0

-----------------------------------------------------------------------------
(* One operation of a lane type, on operands and a pointer of the caller *)

BaseWords == 0..MaxBaseWord

\* the variables a memory operation sets
MemoryOp(name, a, dbg, r) ==
    /\ pc' = name
    /\ base' = a
    /\ debug' = dbg
    /\ outcome' = r.outcome
    /\ mem' = r.mem
    /\ memBefore' = mem
    /\ result' = r.result
    /\ UNCHANGED <<calls, sumOut, cmpOp1, cmpOp2, samples>>
    /\ UNCHANGED lifeVars

IntLoad ==
    /\ pc = "idle"
    /\ \E a \in BaseWords, dbg \in BOOLEAN :
          \E r \in Avx2_32_Int_Load(mem, a, dbg) :
             MemoryOp("Int_Load", a, dbg, r)
    /\ UNCHANGED <<idx, val0, val1>>

IntStore ==
    /\ pc = "idle"
    /\ \E a \in BaseWords, dbg \in BOOLEAN, data \in IdxFamily :
          \E r \in Avx2_32_Int_Store(mem, a, data, dbg) :
             MemoryOp("Int_Store", a, dbg, r) /\ idx' = data
    /\ UNCHANGED <<val0, val1>>

FloatLoad ==
    /\ pc = "idle"
    /\ \E a \in BaseWords, dbg \in BOOLEAN :
          \E r \in Avx2_32_Float_Load(mem, a, dbg) :
             MemoryOp("Float_Load", a, dbg, r)
    /\ UNCHANGED <<idx, val0, val1>>

FloatStore ==
    /\ pc = "idle"
    /\ \E a \in BaseWords, dbg \in BOOLEAN, data \in ValFamily :
          \E r \in Avx2_32_Float_Store(mem, a, data, dbg) :
             MemoryOp("Float_Store", a, dbg, r) /\ val0' = data
    /\ UNCHANGED <<idx, val1>>

FloatLoadGather ==
    /\ pc = "idle"
    /\ \E a \in BaseWords, dbg \in BOOLEAN, i \in IdxFamily :
          \E r \in Avx2_32_Float_LoadGather(mem, a, i, dbg) :
             MemoryOp("Float_LoadGather", a, dbg, r) /\ idx' = i
    /\ UNCHANGED <<val0, val1>>

FloatStoreScatter ==
    /\ pc = "idle"
    /\ \E a \in BaseWords, dbg \in BOOLEAN, i \in IdxFamily,
          data \in PlainVals :
          \E r \in Avx2_32_Float_StoreScatter(mem, a, i, data, dbg) :
             MemoryOp("Float_StoreScatter", a, dbg, r)
             /\ idx' = i /\ val0' = data
    /\ UNCHANGED val1

\* Load(a, i) right after Store(a, i), same pointer and index lanes
GatherAfterScatter ==
    /\ pc = "Float_StoreScatter"
    /\ outcome = "completed"
    /\ \E r \in Avx2_32_Float_LoadGather(mem, base, idx, debug) :
          /\ pc' = "Float_LoadGatherAfterStore"
          /\ outcome' = r.outcome
          /\ result' = r.result
          /\ mem' = r.mem
    /\ UNCHANGED <<memBefore, base, debug, idx, val0, val1, calls, sumOut,
                   cmpOp1, cmpOp2, samples>>
    /\ UNCHANGED lifeVars

\* the variables an operation on registers only leaves alone
RegisterOp(name) ==
    /\ pc' = name
    /\ UNCHANGED <<mem, memBefore, base, debug, outcome, result, cmpOp1,
                   cmpOp2, samples>>
    /\ UNCHANGED lifeVars

ExecuteInt ==
    /\ pc = "idle"
    /\ \E v \in IdxFamily :
          /\ calls' = Avx2_32_Int_Execute(v)
          /\ idx' = v
    /\ RegisterOp("Int_Execute")
    /\ UNCHANGED <<val0, val1, sumOut>>

ExecuteFloat0 ==
    /\ pc = "idle"
    /\ calls' = Avx2_32_Float_Execute0
    /\ RegisterOp("Float_Execute0")
    /\ UNCHANGED <<idx, val0, val1, sumOut>>

ExecuteFloat1 ==
    /\ pc = "idle"
    /\ \E v \in ValFamily :
          /\ calls' = Avx2_32_Float_Execute1(v)
          /\ val0' = v
    /\ RegisterOp("Float_Execute1")
    /\ UNCHANGED <<idx, val1, sumOut>>

ExecuteFloat2 ==
    /\ pc = "idle"
    /\ \E v \in ValFamily, w \in ValFamily :
          /\ calls' = Avx2_32_Float_Execute2(v, w)
          /\ val0' = v
          /\ val1' = w
    /\ RegisterOp("Float_Execute2")
    /\ UNCHANGED <<idx, sumOut>>

SumLanes ==
    /\ pc = "idle"
    /\ \E v \in ValFamily :
          /\ sumOut' = Sum(v)
          /\ val0' = v
    /\ RegisterOp("Sum")
    /\ UNCHANGED <<idx, val1, calls>>

\* the variables a comparison-select sets: its four operands and its result
SelectOp(name, c1, c2, t, f, r) ==
    /\ pc' = name
    /\ cmpOp1' = c1
    /\ cmpOp2' = c2
    /\ val0' = t
    /\ val1' = f
    /\ result' = r
    /\ UNCHANGED <<mem, memBefore, base, debug, outcome, idx, calls, sumOut,
                   samples>>
    /\ UNCHANGED lifeVars

SelectIfLess ==
    /\ pc = "idle"
    /\ \E c1 \in CmpFamily, c2 \in CmpFamily, t \in PlainVals,
          f \in FalseVals :
          SelectOp("IfLess", c1, c2, t, f, IfLess(c1, c2, t, f))

SelectIfEqual ==
    /\ pc = "idle"
    /\ \E c1 \in IdxFamily, c2 \in IntCmpFamily, t \in PlainVals,
          f \in FalseVals :
          SelectOp("IfEqual", c1, c2, t, f, IfEqual(c1, c2, t, f))

\* no binding takes part in a lane operation
LifeIdle ==
    /\ wrapper = InitializeObjectiveWrapperUnfailing(<<>>)
    /\ allocated = {}
    /\ freeCount = [b \in BlockIds |-> 0]
    /\ phase = "init"
    /\ ret = "none"
    /\ fillOutcome = "none"
    /\ objOutcome = "none"
    /\ objInvoked = FALSE
    /\ callAllocs = {}
    /\ cycle = 0
    /\ trace = <<>>

InitLanes == LifeIdle /\ LaneInit(MemInit)

NextLanes ==
    \/ IntLoad \/ IntStore \/ FloatLoad \/ FloatStore
    \/ FloatLoadGather \/ FloatStoreScatter \/ GatherAfterScatter
    \/ ExecuteInt \/ ExecuteFloat0 \/ ExecuteFloat1 \/ ExecuteFloat2
    \/ SumLanes
    \/ SelectIfLess \/ SelectIfEqual

SpecLanes == InitLanes /\ [][NextLanes]_vars

-----------------------------------------------------------------------------
(* Bin summation of lane groups through the gather load and scatter store *)

\* Avx2_32_Float(val): _mm256_set1_ps
Broadcast(v) == [k \in Lanes |-> v]

\* operator+ : _mm256_add_ps
AddLanes(x, y) == [k \in Lanes |-> x[k] + y[k]]

\* one lane group of samples, bin index i[k] for lane k, each sample adding
\* 1 to the raw count of its bin: Load(a, i), + 1, Store(a, i)
BinSumsLaneGroup(m, a, i) ==
    LET bins == Gather(m, a, i)
        sums == AddLanes(bins, Broadcast(1))
    IN Scatter(m, a, TempStore(i), TempStore(sums))

BinIdxFamily ==
    {IdxVec(s, d) : s \in 0..(NumBins - 1), d \in 0..MaxBinStride}

AccumulateGroup ==
    /\ pc \in {"idle", "BinSums"}
    /\ samples < MaxGroups * k_cSIMDPack
    /\ \E i \in BinIdxFamily :
          /\ mem' = BinSumsLaneGroup(mem, base, i)
          /\ idx' = i
    /\ pc' = "BinSums"
    /\ outcome' = "completed"
    /\ samples' = samples + k_cSIMDPack
    /\ UNCHANGED <<memBefore, base, debug, val0, val1, result, calls, sumOut,
                   cmpOp1, cmpOp2>>
    /\ UNCHANGED lifeVars

\* the accumulators are zeroed by the caller, at an aligned address
InitBinSum == LifeIdle /\ LaneInit([w \in Words |-> 0])

NextBinSum == AccumulateGroup

SpecBinSum == InitBinSum /\ [][NextBinSum]_vars

-----------------------------------------------------------------------------
(* Specification of the binding life cycle *)

Init == LifeInit /\ LaneInit(MemInit)

Next == Initialize \/ Create \/ Free

Spec == Init /\ [][Next]_vars

-----------------------------------------------------------------------------
(* Properties of the binding life cycle (specification Spec) *)

OwnedPayloads == {wrapper.m_pObjective, wrapper.m_pFunctionPointersCpp}

AllEntryPointsSet == \A e \in EntryPoints : wrapper[e] # NullFn

\* the wrapper holds the binding a successful create returned
BindingCreated == phase = "created" /\ ret = "Error_None"

\* the last operation freed the binding of a successful create
BindingDestroyed ==
    /\ phase = "freed"
    /\ ret = "Error_None"
    /\ Len(trace) >= 2
    /\ trace[Len(trace)] = "free"
    /\ trace[Len(trace) - 1] = "create"

\* C1: CreateObjective_Avx2_32 never partially succeeds: after it returned,
\* either the status is Error_None and the wrapper holds both payloads, live,
\* and all five entry points, or the status is a failure and no block the
\* call allocated is still live.
C1_NeverPartiallySucceeds ==
    phase = "created" =>
        \/ /\ ret = "Error_None"
           /\ Live(wrapper.m_pObjective)
           /\ Live(wrapper.m_pFunctionPointersCpp)
           /\ AllEntryPointsSet
        \/ /\ ret # "Error_None"
           /\ \A b \in callAllocs : ~Live(b)

C3_TwoCyclesReleaseEachOnce ==
    trace = <<"create", "free", "create", "free">> =>
        \A b \in allocated : freeCount[b] = 1

\* C4: CreateObjective_Avx2_32 returns Error_None exactly when both stages
\* returned Error_None, otherwise the error of the first stage that failed,
\* and Objective::CreateObjective is not invoked after FillWrapper failed.
C4_StatusIsFirstFailure ==
    cycle > 0 =>
        /\ (ret = "Error_None") <=>
              (fillOutcome = "Error_None" /\ objOutcome = "Error_None")
        /\ fillOutcome # "Error_None" => (ret = fillOutcome /\ ~objInvoked)
        /\ fillOutcome = "Error_None" =>
              (objInvoked /\ (objOutcome # "Error_None" => ret = objOutcome))

C4_Witness ==
    /\ phase = "created"
    /\ fillOutcome = "Error_None"
    /\ objOutcome = "Error_ObjectiveUnknown"
    /\ ret = "Error_ObjectiveUnknown"
    /\ objInvoked

\* C5 as stated: the wrapper never offers a callable entry point together
\* with a pointer to an already released payload.
C5_DeadAfterDestroy ==
    ~ \E e \in EntryPoints :
          /\ wrapper[e] # NullFn
          /\ \E p \in OwnedPayloads : Released(p)

\* C5 as amended: FreeObjectiveWrapperInternals releases every payload the
\* wrapper points to, so that no call through an entry point finds a live
\* payload, and leaves every field of the wrapper as it was.
C5_ReleasedAndLeftPopulated ==
    [][(phase \in {"init", "created"} /\ phase' = "freed") =>
          /\ wrapper' = wrapper
          /\ \A p \in {wrapper'.m_pObjective, wrapper'.m_pFunctionPointersCpp} :
                p # NULL => (p \in allocated' /\ freeCount'[p] >= 1)]_vars

C5_Witness ==
    /\ BindingDestroyed
    /\ AllEntryPointsSet
    /\ Released(wrapper.m_pObjective)
    /\ Released(wrapper.m_pFunctionPointersCpp)

-----------------------------------------------------------------------------
(* Properties of the lane types (specifications SpecBinSum, SpecLanes) *)

RECURSIVE SumWords(_, _)
SumWords(m, n) == IF n = 0 THEN m[0] ELSE m[n] + SumWords(m, n - 1)

C7_ExecuteVisitsEachLaneOnce ==
    /\ pc = "Int_Execute" =>
          /\ Len(calls) = k_cSIMDPack
          /\ \A k \in Lanes : calls[k + 1] = <<k, idx[k]>>
    /\ pc = "Float_Execute0" =>
          /\ Len(calls) = k_cSIMDPack
          /\ \A k \in Lanes : calls[k + 1] = <<k>>
    /\ pc = "Float_Execute1" =>
          /\ Len(calls) = k_cSIMDPack
          /\ \A k \in Lanes : calls[k + 1] = <<k, val0[k]>>
    /\ pc = "Float_Execute2" =>
          /\ Len(calls) = k_cSIMDPack
          /\ \A k \in Lanes : calls[k + 1] = <<k, val0[k], val1[k]>>

PairwiseDistinct(v) == \A j \in Lanes, k \in Lanes : j # k => v[j] # v[k]

C7_Witness ==
    /\ pc = "Float_Execute2"
    /\ PairwiseDistinct(val0)
    /\ PairwiseDistinct(val1)
    /\ val0 # val1
    /\ Len(calls) = k_cSIMDPack
    /\ calls[6] = <<5, val0[5], val1[5]>>

RECURSIVE LaneSum(_, _)
LaneSum(v, k) == IF k = 0 THEN v[0] ELSE v[k] + LaneSum(v, k - 1)

\* C8: Sum returns the sum of the 8 lanes, each lane counted once.
C8_SumIsSumOfLanes ==
    pc = "Sum" => sumOut = LaneSum(val0, k_cSIMDPack - 1)

C8_Witness ==
    /\ pc = "Sum"
    /\ PairwiseDistinct(val0)
    /\ sumOut = LaneSum(val0, k_cSIMDPack - 1)
    /\ sumOut > 0

MemoryOps == {"Int_Load", "Int_Store", "Float_Load", "Float_Store",
              "Float_LoadGather", "Float_StoreScatter"}

Misaligned == (SizeofFloat * base) % SizeofTPack # 0

\* C9: in a debug build, a contiguous load or store of integer or float
\* lanes, a gather load or a scatter store whose pointer is not a multiple
\* of 32 bytes ends in the failed assertion, with memory untouched and
\* nothing loaded; it never completes.
C9_MisalignedAccessAsserts ==
    (pc \in MemoryOps /\ debug /\ Misaligned) =>
        /\ outcome = "assert_failed"
        /\ mem = memBefore
        /\ result = <<>>

C9_Witness ==
    /\ pc = "Float_StoreScatter"
    /\ debug
    /\ Misaligned
    /\ outcome = "assert_failed"

Addressed(w) == \E k \in Lanes : base + idx[k] = w

\* the highest lane whose index addresses word w
LastLane(w) ==
    CHOOSE k \in Lanes :
        /\ base + idx[k] = w
        /\ \A j \in Lanes : base + idx[j] = w => j <= k

C10_RoundTripReached ==
    /\ pc = "Float_LoadGatherAfterStore"
    /\ PairwiseDistinct(idx)
    /\ PairwiseDistinct(val0)
    /\ result = val0
    /\ \E w \in Words : w >= base /\ w < base + NumBins /\ ~Addressed(w)

\* the comparison "less than" of two float lanes: false when either is a NaN
LaneLess(x, y) == x # NaN /\ y # NaN /\ x < y

\* C11: for every lane k, IfLess yields trueVal[k] when cmp1[k] < cmp2[k]
\* and falseVal[k] otherwise, and IfEqual on integer lanes yields trueVal[k]
\* when cmp1[k] = cmp2[k] and falseVal[k] otherwise; lane k of the result is
\* a function of lane k of the four operands alone.
C11_SelectIsLaneWise ==
    /\ pc = "IfLess" =>
          \A k \in Lanes :
             result[k] = (IF LaneLess(cmpOp1[k], cmpOp2[k]) THEN val0[k]
                          ELSE val1[k])
    /\ pc = "IfEqual" =>
          \A k \in Lanes :
             result[k] = (IF cmpOp1[k] = cmpOp2[k] THEN val0[k] ELSE val1[k])

\* IfLess with a lane that is less, a lane that is equal, a lane that is
\* greater and a lane comparing a NaN, the two values differing in each
C11_Witness ==
    /\ pc = "IfLess"
    /\ \A k \in Lanes : val0[k] # val1[k]
    /\ \E j \in Lanes : LaneLess(cmpOp1[j], cmpOp2[j]) /\ result[j] = val0[j]
    /\ \E j \in Lanes : /\ cmpOp1[j] = cmpOp2[j] /\ cmpOp1[j] # NaN
                         /\ result[j] = val1[j]
    /\ \E j \in Lanes : LaneLess(cmpOp2[j], cmpOp1[j]) /\ result[j] = val1[j]
    /\ \E j \in Lanes : cmpOp1[j] = NaN /\ result[j] = val1[j]

\* IfEqual with lanes that are equal and lanes that are not, the two values
\* differing in each
C11_IfEqualReached ==
    /\ pc = "IfEqual"
    /\ \A k \in Lanes : val0[k] # val1[k]
    /\ \E j \in Lanes : cmpOp1[j] = cmpOp2[j] /\ result[j] = val0[j]
    /\ \E j \in Lanes : cmpOp1[j] # cmpOp2[j] /\ result[j] = val1[j]

-----------------------------------------------------------------------------
(* The empty state of the wrapper (specification Spec) *)

EmptyState(w) ==
    /\ \A f \in EntryPoints : w[f] = NullFn
    /\ w.m_pObjective = NULL
    /\ w.m_pFunctionPointersCpp = NULL
    /\ w.m_linkFunction = "Link_ERROR"
    /\ w.m_cSIMDPack = 0
    /\ w.m_cFloatBytes = 0
    /\ w.m_cUIntBytes = 0

\* C12: InitializeObjectiveWrapperUnfailing leaves the five function
\* pointers and both payload pointers null, the link function Link_ERROR and
\* the lane width and byte widths 0, whatever the wrapper held before;
\* initializing an initialized wrapper again changes nothing; and
\* FreeObjectiveWrapperInternals on a wrapper that was initialized and not
\* created since releases no block.
C12_InitializeGivesEmptyState ==
    [][ /\ phase' = "init" => EmptyState(wrapper')
        /\ (phase = "init" /\ phase' = "init") => wrapper' = wrapper
        /\ (phase = "init" /\ phase' \in {"freed", "crashed"}) =>
              freeCount' = freeCount ]_vars

\* a binding was created and destroyed, its wrapper (still holding the
\* entry points and the released pointers) was initialized, and the free
\* that followed released nothing: each block stays released once
C12_Witness ==
    /\ phase = "freed"
    /\ trace = <<"free">>
    /\ ret = "Error_None"
    /\ Cardinality(allocated) = 2
    /\ \A b \in allocated : freeCount[b] = 1
    /\ EmptyState(wrapper)

====
